---- MODULE Spec2Model ----
(***************************************************************************)
(* Model of hina (src/index.js, src/cli.js): the specifier parser of the   *)
(* Hina constructor, the redirect-following fetch, and the clone workflow  *)
(* (mkdirp, downloadTo, extract, remove, doActionsAt).                     *)
(*                                                                         *)
(* Strings are sequences of one-character strings.  Fixed pieces of text   *)
(* that the code never inspects ("https://github.com/", ".tar.gz", "HEAD") *)
(* are single tokens.                                                      *)
(***************************************************************************)
EXTENDS Integers, Sequences, FiniteSets, TLC

VARIABLES
    src,          \* the specifier string given to hina() / the CLI
    pc,           \* position of the run: init, constructed, fetching, ...
    error,        \* the error that made the run fail: [kind, input]
    userRepo,     \* this.userRepo
    sub,          \* this.sub
    ref,          \* this.ref (Undefined when the specifier has no ref)
    mkdirpState,  \* the promise of the mkdirp library call: idle/pending/done/failed
    dirExists,    \* the destination directory exists on disk
    url,          \* the URL of the request that fetch has in flight
    statusCode,   \* resp.statusCode of the last response (0 before the first)
    location,     \* resp.headers.location of the last response
    nRequests,    \* number of requests issued by fetch (saturates at MaxRequests)
    nRedirects,   \* number of 3xx responses with a location sent by the server
    archive,      \* the temporary archive file: absent / partial / complete
    step,         \* per clone step: idle, running, ok, or the error it failed with
    events,       \* the "warn" events emitted so far, in order
    manifest,     \* what degit.json at the destination holds
    server,       \* the answers <<status, location>> the remote host may give
    archives,     \* which archives the remote host may serve: see Archives
    degits,       \* which degit.json files a tree may bring: see Degits
    entries,      \* the entry paths of the downloaded archive, in listing order
    degit,        \* the degit.json the extracted tree brought ("absent": none)
    listState,    \* tar.list of extract: idle / running / ended / failed
    listPos,      \* number of entries tar.list has passed to filter
    wrapper,      \* the value the wrapper promise resolved with, if it has
    fs,           \* the files and directories on disk the run has to do with
    unlinks       \* the unlink calls of the remove actions, in call order

\* what the remote repository and host are: never changed by the program
remote == <<server, archives, degits>>

\* the remote repository and host, and what was downloaded from them
env == <<remote, entries, degit>>

\* tar.list and the wrapper promise of extract
tar == <<listState, listPos, wrapper>>

vars == <<src, pc, error, userRepo, sub, ref, mkdirpState, dirExists, url,
          statusCode, location, nRequests, nRedirects, archive, step, events,
          manifest, env, tar, fs, unlinks>>

----------------------------------------------------------------------------
(* Bounds *)

MaxLen == 6
MaxRequests == 4
MaxRefLen == 4
MaxListing == 3
MaxFiles == 2
MaxItems == 2

----------------------------------------------------------------------------
(* Strings *)

Alphabet == {"a", "/", "#", "\n"}

LineTerminators == {"\n"}

Strings == UNION {[1..k -> Alphabet] : k \in 0..MaxLen}

Undefined == <<"undefined">>

HEAD == <<"HEAD">>

Truthy(s) == s # Undefined /\ s # <<>>

\* the first position of s holding a character of cs, Len(s) + 1 if none
FirstIndex(s, cs) ==
    IF \E i \in 1..Len(s) : s[i] \in cs
    THEN CHOOSE i \in 1..Len(s) :
            s[i] \in cs /\ \A j \in 1..(i - 1) : s[j] \notin cs
    ELSE Len(s) + 1

\* s.split("/")
RECURSIVE SplitSlash(_)
SplitSlash(s) ==
    LET q == FirstIndex(s, {"/"})
    IN  IF q > Len(s) THEN <<s>>
        ELSE <<SubSeq(s, 1, q - 1)>> \o SplitSlash(SubSeq(s, q + 1, Len(s)))

----------------------------------------------------------------------------
(* Paths: an absolute path is the sequence of its segments *)

\* the destination directory given to clone
Dest == <<<<"cwd">>, <<"out">>>>

Dirname(p) == SubSeq(p, 1, Len(p) - 1)

\* p is dir or lies below it
Within(dir, p) == Len(p) >= Len(dir) /\ SubSeq(p, 1, Len(dir)) = dir

RECURSIVE Walk(_, _)
Walk(acc, segs) ==
    IF segs = <<>> THEN acc
    ELSE LET h == Head(segs)
         IN  Walk(IF h = <<>> \/ h = <<".">> THEN acc
                  ELSE IF h = <<".", ".">> THEN Dirname(acc)
                  ELSE Append(acc, h),
                  Tail(segs))

\* path.resolve(base, p) for an absolute base: an absolute p starts from the
\* root, "" and "." segments are dropped, ".." goes to the parent
PathResolve(base, p) ==
    Walk(IF p # <<>> /\ p[1] = "/" THEN <<>> ELSE base, SplitSlash(p))

----------------------------------------------------------------------------
(* Hina constructor: the specifier parser *)

\* [^\/]+\/[^\/#]+ matches the whole of t
MatchUserRepo(t) ==
    \E k \in 2..(Len(t) - 1) :
        /\ t[k] = "/"
        /\ \A m \in 1..(k - 1) : t[m] # "/"
        /\ \A m \in (k + 1)..Len(t) : t[m] \notin {"/", "#"}

\* (\/[^#]*)? matches the whole of t; the empty t is the group not taking part
MatchSub(t) ==
    \/ t = <<>>
    \/ /\ t[1] = "/"
       /\ \A m \in 2..Len(t) : t[m] # "#"

\* MatchRef with #.* for #.+
MatchRef_star(t) ==
    \/ t = <<>>
    \/ /\ t[1] = "#"
       /\ \A m \in 2..Len(t) : t[m] \notin LineTerminators

\* (#.+)? matches the whole of t; "." matches no line terminator
MatchRef(t) ==
    \/ t = <<>>
    \/ /\ Len(t) >= 2
       /\ t[1] = "#"
       /\ \A m \in 2..Len(t) : t[m] \notin LineTerminators

\* src.match(/^(?<userRepo>...)(?<sub>...)?(?<ref>...)?$/): the ways to cut src
\* into the three groups, <<i, j>> being the ends of userRepo and of sub
Match(s) ==
    {c \in (0..Len(s)) \X (0..Len(s)) :
        /\ c[1] <= c[2]
        /\ MatchUserRepo(SubSeq(s, 1, c[1]))
        /\ MatchSub(SubSeq(s, c[1] + 1, c[2]))
        /\ MatchRef(SubSeq(s, c[2] + 1, Len(s)))}

\* match.groups: a group that did not take part is undefined
Groups(s) ==
    LET c == CHOOSE x \in Match(s) : TRUE
        g2 == SubSeq(s, c[1] + 1, c[2])
        g3 == SubSeq(s, c[2] + 1, Len(s))
    IN  [userRepo |-> SubSeq(s, 1, c[1]),
         sub      |-> IF g2 = <<>> THEN Undefined ELSE g2,
         ref      |-> IF g3 = <<>> THEN Undefined ELSE g3]

\* .replace(/\/{2,}/g, "/")
RECURSIVE CollapseSlashes(_)
CollapseSlashes(s) ==
    IF Len(s) < 2 THEN s
    ELSE IF s[1] = "/" /\ s[2] = "/" THEN CollapseSlashes(Tail(s))
    ELSE <<s[1]>> \o CollapseSlashes(Tail(s))

\* NormalizeSub without the "/" put after the sub-path
NormalizeSub_no_suffix(s) ==
    CollapseSlashes(<<"/">> \o (IF Truthy(s) THEN s ELSE <<>>))

\* `/${sub || ""}/`.replace(/\/{2,}/g, "/")
NormalizeSub(s) ==
    CollapseSlashes(<<"/">> \o (IF Truthy(s) THEN s ELSE <<>>) \o <<"/">>)

\* .replace(/^#+/, "")
RECURSIVE StripHashes(_)
StripHashes(s) ==
    IF s # <<>> /\ s[1] = "#" THEN StripHashes(Tail(s)) ELSE s

\* if (ref) { ref = ref.replace(/^#+/, "") }
NormalizeRef(r) == IF Truthy(r) THEN StripHashes(r) ELSE r

\* RefOrHead with ?? for ||
RefOrHead_nullish(r) == IF r # Undefined THEN r ELSE HEAD

\* `${this.ref || "HEAD"}`
RefOrHead(r) == IF Truthy(r) THEN r ELSE HEAD

\* `https://github.com/${this.userRepo}/archive/${this.ref || "HEAD"}.tar.gz`
ArchiveUrl(ur, r) ==
    <<"https://github.com/">> \o ur \o <<"/archive/">> \o RefOrHead(r)
        \o <<".tar.gz">>

----------------------------------------------------------------------------
(* State *)

Steps == {"mkdirp", "downloadTo", "extract", "remove", "doActionsAt"}

NoError == [kind |-> "none", input |-> <<>>]

\* the specifiers the clone workflow is run with
Specifiers ==
    {<<"a", "/", "a">>,
     <<"a", "/", "a", "/", "a", "#", "a">>,
     <<"a", "/", "a", "#", "#">>,
     <<"a">>,
     <<>>}

\* response statuses: the ends of the ranges the code and the spec tell apart
Statuses == {200, 298, 299, 300, 398, 399, 400, 598, 599}

L1 == <<"https://codeload.github.com/1">>

L2 == <<"https://codeload.github.com/2">>

\* headers.location: undefined when the header is missing
Locations == {Undefined, L1, L2}

\* every answer a host can give
FullServer == Statuses \X Locations

\* a host that serves the archive at once
QuietServer == {<<200, Undefined>>}

\* the archive of a repository: wrapper w/ holding a and s/b
Listing0 ==
    <<<<"w", "/">>, <<"w", "/", "a">>, <<"w", "/", "s", "/">>,
      <<"w", "/", "s", "/", "b">>>>

\* degit.json at the destination: missing, not readable, not JSON, JSON but no
\* array, an array
ManifestKinds == {"absent", "unreadable", "badjson", "nonarray", "array"}

Manifest(kind, items) == [kind |-> kind, items |-> items]

NoManifest == Manifest("absent", <<>>)

\* an element of a files array that is no string
NonString == <<"non-string">>

\* the entries of a manifest array: type is "null" or "object", src is the
\* typeof of the src field, isArray tells whether the files field is an array
Item(type, action, srcType, isArray, files) ==
    [type |-> type, action |-> action, src |-> srcType, isArray |-> isArray,
     files |-> files]

RemoveItem(files) == Item("object", "remove", "undefined", TRUE, files)

\* the manifests the clone workflow is run with
SpecManifests ==
    {NoManifest,
     Manifest("badjson", <<>>),
     Manifest("array", <<RemoveItem(<<<<"a">>, <<"x">>>>)>>)}

\* the entry paths archives are made of
EntryPool ==
    {<<"w", "/">>, <<"v", "/">>, <<"w", "/", "a">>, <<"w", "/", "s", "/">>,
     <<"w", "/", "s", "/", "b">>, <<"a">>}

Listings == UNION {[1..k -> EntryPool] : k \in 0..MaxListing}

\* the tree brings no degit.json, or one that removes a file that no archive
\* has
ExtractManifests ==
    {NoManifest, Manifest("array", <<RemoveItem(<<<<"x">>>>)>>)}

\* the elements of the files arrays of well-formed remove actions: a file of
\* the archive and a file that is not there
FilePool == {<<"a">>, <<"x">>}

FileLists == UNION {[1..k -> FilePool] : k \in 0..MaxFiles}

\* the entries of manifest arrays: null, an unknown action, clone with and
\* without a string src, remove without a files array and with a files array
\* that holds a non-string, and well-formed remove actions
ItemPool ==
    {Item("null", "undefined", "undefined", FALSE, <<>>),
     Item("object", "unknown", "undefined", FALSE, <<>>),
     Item("object", "clone", "string", FALSE, <<>>),
     Item("object", "clone", "number", FALSE, <<>>),
     Item("object", "remove", "undefined", FALSE, <<>>),
     RemoveItem(<<NonString>>),
     RemoveItem(<<<<"a">>, NonString>>),
     RemoveItem(<<<<"a">>>>),
     RemoveItem(<<<<"x">>>>)}

\* degit.json of every kind, the arrays with at most MaxItems entries
Manifests ==
    {Manifest(k, <<>>) : k \in ManifestKinds \ {"array"}}
        \cup {Manifest("array", items) :
                items \in UNION {[1..k -> ItemPool] : k \in 0..MaxItems}}

\* the arrays of at most MaxItems well-formed remove actions
RemoveManifests ==
    {Manifest("array", items) :
        items \in UNION {[1..k -> {RemoveItem(f) : f \in FileLists}] :
                            k \in 0..MaxItems}}

\* the file names of remove actions that are paths: a file of the tree, the
\* same file by way of a sub-directory, a file of the parent directory, an
\* absolute path
PathPool ==
    {<<"a">>,
     <<"s", "/", ".", ".", "/", "a">>,
     <<".", ".", "/", "a">>,
     <<"/", "a">>}

\* the arrays of one remove action with at most MaxFiles such names
PathManifests ==
    {Manifest("array", <<RemoveItem(f)>>) :
        f \in UNION {[1..k -> PathPool] : k \in 0..MaxFiles}}

\* files that may be on disk outside the destination
OutsideFiles ==
    {<<"file", <<<<"cwd">>, <<"a">>>>>>, <<"file", <<<<"a">>>>>>}

\* the archives the host may serve, by name: the one of Listing0, or any
Archives(name) ==
    CASE name = "fixed" -> {Listing0}
      [] name = "any"   -> Listings

\* the degit.json files a tree may bring, by name
Degits(name) ==
    CASE name = "none"    -> {NoManifest}
      [] name = "some"    -> SpecManifests
      [] name = "missing" -> ExtractManifests
      [] name = "any"     -> Manifests
      [] name = "removes" -> RemoveManifests
      [] name = "paths"   -> PathManifests

Start(inputs, servers, listings, manifests) ==
    /\ server \in servers
    /\ archives = listings
    /\ degits = manifests
    /\ entries = <<>>
    /\ degit = NoManifest
    /\ listState = "idle"
    /\ listPos = 0
    /\ wrapper = Undefined
    /\ fs = {}
    /\ unlinks = <<>>
    /\ src \in inputs
    /\ pc = "init"
    /\ error = NoError
    /\ userRepo = Undefined
    /\ sub = Undefined
    /\ ref = Undefined
    /\ mkdirpState = "idle"
    /\ dirExists \in BOOLEAN
    /\ url = Undefined
    /\ statusCode = 0
    /\ location = Undefined
    /\ nRequests = 0
    /\ nRedirects = 0
    /\ archive = "absent"
    /\ step = [n \in Steps |-> "idle"]
    /\ events = <<>>
    /\ manifest = NoManifest

Init == Start(Specifiers, {FullServer}, "fixed", "some")

\* a rejection that nothing catches: the run fails with it
Throw(kind, input) ==
    /\ pc' = "failed"
    /\ error' = [kind |-> kind, input |-> input]

\* this.emit("warn", err)
EmitWarn(err) == events' = Append(events, [type |-> "warn", err |-> err])

Bump(n) == IF n < MaxRequests THEN n + 1 ELSE n

----------------------------------------------------------------------------
(* Hina constructor and the CLI *)

\* new Hina(src, option)
Construct ==
    IF Match(src) = {}
    THEN /\ Throw("Could not parse", src)
         /\ UNCHANGED <<userRepo, sub, ref>>
    ELSE /\ userRepo' = Groups(src).userRepo
         /\ sub' = NormalizeSub(Groups(src).sub)
         /\ ref' = NormalizeRef(Groups(src).ref)
         /\ pc' = "constructed"
         /\ UNCHANGED error

\* module.exports = function hina(src, option): the library entry
hina ==
    /\ pc = "init"
    /\ Construct
    /\ UNCHANGED <<env, tar, fs, unlinks>>
    /\ UNCHANGED <<src, mkdirpState, dirExists, url, statusCode, location,
                   nRequests, nRedirects, archive, step, events, manifest>>

\* cli.js run(): up to h.clone(dest)
run ==
    /\ pc = "init"
    /\ IF src = <<>>
       THEN /\ Throw("Too few arguments", <<>>)
            /\ UNCHANGED <<userRepo, sub, ref>>
       ELSE Construct
    /\ UNCHANGED <<env, tar, fs, unlinks>>
    /\ UNCHANGED <<src, mkdirpState, dirExists, url, statusCode, location,
                   nRequests, nRedirects, archive, step, events, manifest>>

----------------------------------------------------------------------------
(* clone *)

\* clone(dest) up to the first request of downloadTo: this.mkdirp(dest) starts
\* the mkdirp library call and resolves at once, then fetch issues https.get
clone ==
    /\ pc = "constructed"
    /\ mkdirpState' = "pending"
    /\ step' = [step EXCEPT !["mkdirp"] = "ok", !["downloadTo"] = "running"]
    /\ url' = ArchiveUrl(userRepo, ref)
    /\ nRequests' = 1
    /\ pc' = "fetching"
    /\ UNCHANGED <<env, tar, fs, unlinks>>
    /\ UNCHANGED <<src, error, userRepo, sub, ref, dirExists, statusCode,
                   location, nRedirects, archive, events, manifest>>

\* the mkdirp library call creates the directory
mkdirp_done ==
    /\ mkdirpState = "pending"
    /\ mkdirpState' = "done"
    /\ dirExists' = TRUE
    /\ UNCHANGED <<env, tar, fs, unlinks>>
    /\ UNCHANGED <<src, pc, error, userRepo, sub, ref, url, statusCode,
                   location, nRequests, nRedirects, archive, step, events,
                   manifest>>

\* the mkdirp library call fails; its promise is not awaited by anyone
mkdirp_fail ==
    /\ mkdirpState = "pending"
    /\ ~dirExists
    /\ mkdirpState' = "failed"
    /\ UNCHANGED <<env, tar, fs, unlinks>>
    /\ UNCHANGED <<src, pc, error, userRepo, sub, ref, dirExists, url,
                   statusCode, location, nRequests, nRedirects, archive, step,
                   events, manifest>>

----------------------------------------------------------------------------
(* fetch *)

\* https.get(url, resolve): the server answers the request in flight
https_get ==
    /\ pc = "fetching"
    /\ \E r \in server :
        /\ statusCode' = r[1]
        /\ location' = r[2]
        /\ nRedirects' = IF r[1] \in 300..399 /\ r[2] # Undefined
                         THEN Bump(nRedirects) ELSE nRedirects
    /\ pc' = "responded"
    /\ UNCHANGED <<env, tar, fs, unlinks>>
    /\ UNCHANGED <<src, error, userRepo, sub, ref, mkdirpState, dirExists,
                   url, nRequests, archive, step, events, manifest>>

\* https.get(...).on("error", reject): the request fails
https_error ==
    /\ pc = "fetching"
    /\ Throw("request error", <<>>)
    /\ step' = [step EXCEPT !["downloadTo"] = "request error"]
    /\ UNCHANGED <<env, tar, fs, unlinks>>
    /\ UNCHANGED <<src, userRepo, sub, ref, mkdirpState, dirExists, url,
                   statusCode, location, nRequests, nRedirects, archive,
                   events, manifest>>

\* FetchOutcome without the 4xx test
FetchOutcome_5xx(s, loc) ==
    IF s >= 500 THEN "status error"
    ELSE IF s >= 300
         THEN IF ~Truthy(loc) THEN "No location header" ELSE "redirect"
         ELSE "return"

\* what fetch does with a response
FetchOutcome(s, loc) ==
    IF s >= 500 \/ s >= 400 THEN "status error"
    ELSE IF s >= 300
         THEN IF ~Truthy(loc) THEN "No location header" ELSE "redirect"
         ELSE "return"

\* fetch that repeats the request to url instead of following location
fetch_same_url ==
    /\ pc = "responded"
    /\ LET o == FetchOutcome(statusCode, location) IN
        IF o = "redirect"
        THEN /\ url' = url
             /\ nRequests' = Bump(nRequests)
             /\ pc' = "fetching"
             /\ UNCHANGED <<error, step>>
        ELSE IF o = "return"
        THEN /\ pc' = "piping"
             /\ UNCHANGED <<error, step, url, nRequests>>
        ELSE /\ Throw(o, <<>>)
             /\ step' = [step EXCEPT !["downloadTo"] = o]
             /\ UNCHANGED <<url, nRequests>>
    /\ UNCHANGED <<env, tar, fs, unlinks>>
    /\ UNCHANGED <<src, userRepo, sub, ref, mkdirpState, dirExists,
                   statusCode, location, nRedirects, archive, events, manifest>>

\* fetch(url) after the response; on return downloadTo pipes the response
\* into fs.createWriteStream(file)
fetch ==
    /\ pc = "responded"
    /\ LET o == FetchOutcome(statusCode, location) IN
        IF o = "redirect"
        THEN /\ url' = location
             /\ nRequests' = Bump(nRequests)
             /\ pc' = "fetching"
             /\ UNCHANGED <<error, step>>
        ELSE IF o = "return"
        THEN /\ pc' = "piping"
             /\ UNCHANGED <<error, step, url, nRequests>>
        ELSE /\ Throw(o, <<>>)
             /\ step' = [step EXCEPT !["downloadTo"] = o]
             /\ UNCHANGED <<url, nRequests>>
    /\ UNCHANGED <<env, tar, fs, unlinks>>
    /\ UNCHANGED <<src, userRepo, sub, ref, mkdirpState, dirExists,
                   statusCode, location, nRedirects, archive, events, manifest>>

----------------------------------------------------------------------------
(* downloadTo: resp.pipe(fs.createWriteStream(file)) *)

\* const file = path.resolve(dest, `${this.ref || "HEAD"}.tar.gz`)
File == PathResolve(Dest, RefOrHead(ref) \o <<".tar.gz">>)

\* whether the directory dir can be there: the destination is as dirExists
\* tells, a directory below it only if the destination is there, any other
\* directory may or may not be
MayExist(dir) ==
    IF dir = Dest THEN {dirExists}
    ELSE IF dir = <<>> THEN {TRUE}
    ELSE IF Within(Dest, dir) /\ ~dirExists THEN {FALSE}
    ELSE BOOLEAN

\* the write stream opens the file; without the directory of the file the
\* stream emits "error" and downloadTo rejects
downloadTo_open ==
    /\ pc = "piping"
    /\ archive = "absent"
    /\ \E there \in MayExist(Dirname(File)) :
        IF there
        THEN /\ archive' = "partial"
             /\ UNCHANGED <<pc, error, step>>
        ELSE /\ Throw("ENOENT", <<>>)
             /\ step' = [step EXCEPT !["downloadTo"] = "ENOENT"]
             /\ UNCHANGED archive
    /\ UNCHANGED <<env, tar, fs, unlinks>>
    /\ UNCHANGED <<src, userRepo, sub, ref, mkdirpState, dirExists, url,
                   statusCode, location, nRequests, nRedirects, events,
                   manifest>>

\* stream.on("error", reject) while writing: the partial file stays
downloadTo_error ==
    /\ pc = "piping"
    /\ archive = "partial"
    /\ Throw("write error", <<>>)
    /\ step' = [step EXCEPT !["downloadTo"] = "write error"]
    /\ UNCHANGED <<env, tar, fs, unlinks>>
    /\ UNCHANGED <<src, userRepo, sub, ref, mkdirpState, dirExists, url,
                   statusCode, location, nRequests, nRedirects, archive,
                   events, manifest>>

\* the response stream fails while it is piped (the connection drops): pipe
\* neither ends nor destroys the write stream and nothing listens on resp, so
\* neither "finish" nor "error" of the write stream comes; the promise stays
\* pending, or the unhandled "error" event of resp ends the process
downloadTo_resp_error ==
    /\ pc = "piping"
    /\ archive = "partial"
    /\ pc' \in {"stalled", "crashed"}
    /\ UNCHANGED <<src, error, userRepo, sub, ref, mkdirpState, dirExists,
                   url, statusCode, location, nRequests, nRedirects, archive,
                   step, events, manifest, env, tar, fs, unlinks>>

\* stream.on("finish", resolve): downloadTo resolves, clone calls extract,
\* which starts tar.list and waits for the wrapper promise
downloadTo_finish ==
    /\ pc = "piping"
    /\ archive = "partial"
    /\ archive' = "complete"
    /\ step' = [step EXCEPT !["downloadTo"] = "ok", !["extract"] = "running"]
    /\ pc' = "listing"
    /\ listState' = "running"
    /\ entries' \in Archives(archives)
    /\ UNCHANGED <<src, error, userRepo, sub, ref, mkdirpState, dirExists,
                   url, statusCode, location, nRequests, nRedirects, events,
                   manifest, remote, degit, listPos, wrapper, fs, unlinks>>

----------------------------------------------------------------------------
(* extract *)

\* path.match(/^[^\/]+(?=\/$)/): a name without slash followed by the final
\* slash
IsWrapperEntry(p) ==
    /\ Len(p) >= 2
    /\ p[Len(p)] = "/"
    /\ \A i \in 1..(Len(p) - 1) : p[i] # "/"

\* the match of an entry that is one: the path without its final slash
WrapperOf(p) == SubSeq(p, 1, Len(p) - 1)

\* the wrapper promise is settled once resolved or rejected
WrapperPending == wrapper = Undefined /\ pc = "listing"

\* tar.list where every wrapper entry sets the wrapper anew
tar_list_entry_last ==
    /\ listState = "running"
    /\ listPos < Len(entries)
    /\ listPos' = listPos + 1
    /\ LET p == entries[listPos + 1] IN
        IF IsWrapperEntry(p)
        THEN /\ wrapper' = WrapperOf(p)
             /\ pc' = IF WrapperPending THEN "extracting" ELSE pc
        ELSE UNCHANGED <<wrapper, pc>>
    /\ UNCHANGED <<src, error, userRepo, sub, ref, mkdirpState, dirExists,
                   url, statusCode, location, nRequests, nRedirects, archive,
                   step, events, manifest, env, listState, fs, unlinks>>

\* tar.list passes the next entry to filter; the first wrapper entry resolves
\* the promise and extract goes on to tar.extract, later ones change nothing
tar_list_entry ==
    /\ listState = "running"
    /\ listPos < Len(entries)
    /\ listPos' = listPos + 1
    /\ LET p == entries[listPos + 1] IN
        IF IsWrapperEntry(p) /\ WrapperPending
        THEN /\ wrapper' = WrapperOf(p)
             /\ pc' = "extracting"
        ELSE UNCHANGED <<wrapper, pc>>
    /\ UNCHANGED <<src, error, userRepo, sub, ref, mkdirpState, dirExists,
                   url, statusCode, location, nRequests, nRedirects, archive,
                   step, events, manifest, env, listState, fs, unlinks>>

\* tar.list is through: .then(() => reject(new Error("No wrapper matches")))
\* rejects the promise unless it is resolved already
tar_list_end ==
    /\ listState = "running"
    /\ listPos = Len(entries)
    /\ listState' = "ended"
    /\ IF WrapperPending
       THEN /\ Throw("No wrapper matches", <<>>)
            /\ step' = [step EXCEPT !["extract"] = "No wrapper matches"]
       ELSE UNCHANGED <<pc, error, step>>
    /\ UNCHANGED <<src, userRepo, sub, ref, mkdirpState, dirExists, url,
                   statusCode, location, nRequests, nRedirects, archive,
                   events, manifest, env, listPos, wrapper, fs, unlinks>>

\* tar.list fails on the archive: .then(..., reject)
tar_list_error ==
    /\ listState = "running"
    /\ listState' = "failed"
    /\ IF WrapperPending
       THEN /\ Throw("tar error", <<>>)
            /\ step' = [step EXCEPT !["extract"] = "tar error"]
       ELSE UNCHANGED <<pc, error, step>>
    /\ UNCHANGED <<src, userRepo, sub, ref, mkdirpState, dirExists, url,
                   statusCode, location, nRequests, nRedirects, archive,
                   events, manifest, env, listPos, wrapper, fs, unlinks>>

\* const wrapperDir = `${wrapper}${this.sub}`
WrapperDir(w) == w \o sub

\* strip without the - 1
Strip_length(w) == Len(SplitSlash(WrapperDir(w)))

\* strip: wrapperDir.split("/").length - 1
Strip(w) == Len(SplitSlash(WrapperDir(w))) - 1

\* tar: a path without its trailing slashes
RECURSIVE StripSlash(_)
StripSlash(p) ==
    IF p # <<>> /\ p[Len(p)] = "/" THEN StripSlash(SubSeq(p, 1, Len(p) - 1))
    ELSE p

\* parts.join("/")
RECURSIVE JoinSlash(_)
JoinSlash(parts) ==
    IF parts = <<>> THEN <<>>
    ELSE IF Len(parts) = 1 THEN parts[1]
    ELSE parts[1] \o <<"/">> \o JoinSlash(Tail(parts))

\* tar.extract(options, [wrapperDir]): an entry is taken when it is the listed
\* path or lies in a directory that is
Listed(w, p) ==
    LET t == StripSlash(WrapperDir(w))
        q == StripSlash(p)
    IN  \/ q = t
        \/ /\ Len(q) > Len(t)
           /\ SubSeq(q, 1, Len(t)) = t
           /\ q[Len(t) + 1] = "/"

\* tar strip: the path of an entry without its first n parts
Stripped(n, p) ==
    LET parts == SplitSlash(p)
    IN  JoinSlash(SubSeq(parts, n + 1, Len(parts)))

\* what tar.extract writes: the listed entries that have at least strip parts,
\* at their stripped path below cwd; an entry that lands on cwd itself is no
\* new file (tar does not replace cwd)
Extracted(w) ==
    LET taken == {i \in 1..Len(entries) :
                    /\ Listed(w, entries[i])
                    /\ Len(SplitSlash(entries[i])) >= Strip(w)
                    /\ PathResolve(Dest, Stripped(Strip(w), entries[i])) # Dest}
    IN  {<<IF entries[i][Len(entries[i])] = "/" THEN "dir" ELSE "file",
           PathResolve(Dest, Stripped(Strip(w), entries[i]))>> : i \in taken}

\* the errors extract rejects with: no wrapper in the listing, or tar failing
ExtractErrors == {"No wrapper matches", "tar error"}

\* extract whose rejection is caught like that of remove
extract_caught ==
    /\ pc = "extracting"
    /\ \/ /\ EmitWarn("tar error")
          /\ step' = [step EXCEPT !["extract"] = "tar error",
                                  !["remove"] = "running"]
          /\ UNCHANGED <<manifest, degit, fs>>
       \/ /\ dirExists
          /\ fs' = fs \cup Extracted(wrapper)
          /\ degit' \in Degits(degits)
          /\ manifest' = IF degit'.kind # "absent" THEN degit' ELSE manifest
          /\ step' = [step EXCEPT !["extract"] = "ok", !["remove"] = "running"]
          /\ UNCHANGED events
    /\ pc' = "removing"
    /\ UNCHANGED <<src, error, userRepo, sub, ref, mkdirpState, dirExists,
                   url, statusCode, location, nRequests, nRedirects, archive,
                   remote, entries, tar, unlinks>>

\* tar.extract settles: rejected, extract rejects and clone ends; resolved,
\* the entries are on disk, with the degit.json the tree brings, and clone
\* calls this.remove(file).  Without the directory cwd tar.extract fails
extract ==
    /\ pc = "extracting"
    /\ \/ /\ Throw("tar error", <<>>)
          /\ step' = [step EXCEPT !["extract"] = "tar error"]
          /\ UNCHANGED <<manifest, degit, fs>>
       \/ /\ dirExists
          /\ fs' = fs \cup Extracted(wrapper)
          /\ degit' \in Degits(degits)
          /\ manifest' = IF degit'.kind # "absent" THEN degit' ELSE manifest
          /\ step' = [step EXCEPT !["extract"] = "ok", !["remove"] = "running"]
          /\ pc' = "removing"
          /\ UNCHANGED error
    /\ UNCHANGED <<src, userRepo, sub, ref, mkdirpState, dirExists, url,
                   statusCode, location, nRequests, nRedirects, archive,
                   events, remote, entries, tar, unlinks>>

----------------------------------------------------------------------------
(* remove *)

\* remove without the .catch: a failed unlink rejects clone
remove_uncaught ==
    /\ pc = "removing"
    /\ \/ /\ archive' = "absent"
          /\ step' = [step EXCEPT !["remove"] = "ok",
                                  !["doActionsAt"] = "running"]
          /\ pc' = "acting"
          /\ UNCHANGED error
       \/ /\ Throw("unlink failed", <<>>)
          /\ step' = [step EXCEPT !["remove"] = "unlink failed"]
          /\ UNCHANGED archive
    /\ UNCHANGED <<src, userRepo, sub, ref, mkdirpState, dirExists, events,
                   url, statusCode, location, nRequests, nRedirects, manifest,
                   env, tar, fs, unlinks>>

\* this.remove(file) settles: fs.promises.unlink(file) deleted the archive, or
\* failed and .catch emits "warn"; either way clone calls doActionsAt, which
\* starts reading degit.json
remove ==
    /\ pc = "removing"
    /\ \/ /\ archive' = "absent"
          /\ step' = [step EXCEPT !["remove"] = "ok",
                                  !["doActionsAt"] = "running"]
          /\ UNCHANGED events
       \/ /\ EmitWarn("unlink failed")
          /\ step' = [step EXCEPT !["remove"] = "unlink failed",
                                  !["doActionsAt"] = "running"]
          /\ UNCHANGED archive
    /\ pc' = "acting"
    /\ UNCHANGED <<src, error, userRepo, sub, ref, mkdirpState, dirExists,
                   url, statusCode, location, nRequests, nRedirects, manifest,
                   env, tar, fs, unlinks>>

----------------------------------------------------------------------------
(* doActionsAt *)

\* the filter without the check of files
Valid_any_files(item) ==
    IF item.type = "null" THEN FALSE
    ELSE CASE item.action = "clone"  -> item.src = "string"
           [] item.action = "remove" -> item.isArray
           [] OTHER -> FALSE

\* rawData.filter(...): null entries, unknown actions, a clone without string
\* src and a remove whose files is no array of strings are dropped
Valid(item) ==
    IF item.type = "null" THEN FALSE
    ELSE CASE item.action = "clone"  -> item.src = "string"
           [] item.action = "remove" ->
                /\ item.isArray
                /\ \A i \in 1..Len(item.files) : item.files[i] # NonString
           [] OTHER -> FALSE

\* the files unlink is called with by actions.map(...), in call order: those
\* of the valid remove entries; a clone entry does nothing
RECURSIVE Calls(_)
Calls(items) ==
    IF items = <<>> THEN <<>>
    ELSE (IF Valid(Head(items)) /\ Head(items).action = "remove"
          THEN Head(items).files ELSE <<>>) \o Calls(Tail(items))

\* doActionsAt without the Array.isArray check
doActionsAt_no_array_check ==
    /\ pc = "acting"
    /\ CASE manifest.kind \in {"absent", "unreadable"} ->
              /\ step' = [step EXCEPT !["doActionsAt"] = "ok"]
              /\ pc' = "done"
              /\ UNCHANGED events
         [] manifest.kind = "badjson" ->
              /\ step' = [step EXCEPT !["doActionsAt"] = "SyntaxError"]
              /\ EmitWarn("SyntaxError")
              /\ pc' = "done"
         [] manifest.kind \in {"array", "nonarray"} ->
              /\ pc' = "unlinking"
              /\ UNCHANGED <<step, events>>
    /\ UNCHANGED <<src, error, userRepo, sub, ref, mkdirpState, dirExists,
                   url, statusCode, location, nRequests, nRedirects, archive,
                   manifest, env, tar, fs, unlinks>>

\* doActionsAt(dest) once readFile has settled: no or unreadable file returns,
\* JSON.parse may throw, a value that is no array returns, an array goes on
\* to unlink degit.json.  A rejection is caught by clone and emitted as "warn"
doActionsAt ==
    /\ pc = "acting"
    /\ CASE manifest.kind \in {"absent", "unreadable", "nonarray"} ->
              /\ step' = [step EXCEPT !["doActionsAt"] = "ok"]
              /\ pc' = "done"
              /\ UNCHANGED events
         [] manifest.kind = "badjson" ->
              /\ step' = [step EXCEPT !["doActionsAt"] = "SyntaxError"]
              /\ EmitWarn("SyntaxError")
              /\ pc' = "done"
         [] manifest.kind = "array" ->
              /\ pc' = "unlinking"
              /\ UNCHANGED <<step, events>>
    /\ UNCHANGED <<src, error, userRepo, sub, ref, mkdirpState, dirExists,
                   url, statusCode, location, nRequests, nRedirects, archive,
                   manifest, env, tar, fs, unlinks>>

\* doActionsAt that starts the removals and leaves degit.json in place
doActionsAt_unlink_keep ==
    /\ pc = "unlinking"
    /\ LET calls == Calls(manifest.items) IN
          /\ unlinks' = [i \in 1..Len(calls) |->
                            [path  |-> PathResolve(Dest, calls[i]),
                             state |-> "pending"]]
          /\ IF calls = <<>>
             THEN /\ step' = [step EXCEPT !["doActionsAt"] = "ok"]
                  /\ pc' = "done"
             ELSE /\ pc' = "removing files"
                  /\ UNCHANGED step
          /\ UNCHANGED <<events, manifest>>
    /\ UNCHANGED <<src, error, userRepo, sub, ref, mkdirpState, dirExists,
                   url, statusCode, location, nRequests, nRedirects, archive,
                   env, tar, fs>>

\* await fs.promises.unlink(actionsPath) settles: on failure doActionsAt
\* rejects; on success the entries are filtered and every unlink of the valid
\* remove entries is called at once
doActionsAt_unlink ==
    /\ pc = "unlinking"
    /\ \/ /\ step' = [step EXCEPT !["doActionsAt"] = "unlink failed"]
          /\ EmitWarn("unlink failed")
          /\ pc' = "done"
          /\ UNCHANGED <<manifest, unlinks>>
       \/ LET calls == Calls(manifest.items) IN
          /\ manifest' = NoManifest
          /\ unlinks' = [i \in 1..Len(calls) |->
                            [path  |-> PathResolve(Dest, calls[i]),
                             state |-> "pending"]]
          /\ IF calls = <<>>
             THEN /\ step' = [step EXCEPT !["doActionsAt"] = "ok"]
                  /\ pc' = "done"
             ELSE /\ pc' = "removing files"
                  /\ UNCHANGED step
          /\ UNCHANGED events
    /\ UNCHANGED <<src, error, userRepo, sub, ref, mkdirpState, dirExists,
                   url, statusCode, location, nRequests, nRedirects, archive,
                   env, tar, fs>>

\* unlink without the .catch: the first failed removal rejects doActionsAt
unlink_uncaught ==
    /\ pc = "removing files"
    /\ \E i \in 1..Len(unlinks) :
        LET f == <<"file", unlinks[i].path>> IN
        /\ unlinks[i].state = "pending"
        /\ unlinks' = [unlinks EXCEPT
                          ![i].state = IF f \in fs THEN "ok" ELSE "failed"]
        /\ fs' = fs \ {f}
        /\ IF f \in fs
           THEN /\ UNCHANGED events
                /\ IF \A j \in 1..Len(unlinks) :
                         j # i => unlinks[j].state # "pending"
                   THEN /\ step' = [step EXCEPT !["doActionsAt"] = "ok"]
                        /\ pc' = "done"
                   ELSE UNCHANGED <<step, pc>>
           ELSE /\ EmitWarn("ENOENT")
                /\ step' = [step EXCEPT !["doActionsAt"] = "ENOENT"]
                /\ pc' = "done"
    /\ UNCHANGED <<src, error, userRepo, sub, ref, mkdirpState, dirExists,
                   url, statusCode, location, nRequests, nRedirects, archive,
                   manifest, env, tar>>

\* unlink where a failed removal calls off the removals still pending
unlink_skip_rest ==
    /\ pc = "removing files"
    /\ \E i \in 1..Len(unlinks) :
        LET f == <<"file", unlinks[i].path>> IN
        /\ unlinks[i].state = "pending"
        /\ fs' = fs \ {f}
        /\ IF f \in fs
           THEN /\ unlinks' = [unlinks EXCEPT ![i].state = "ok"]
                /\ UNCHANGED events
                /\ IF \A j \in 1..Len(unlinks) :
                         j # i => unlinks[j].state # "pending"
                   THEN /\ step' = [step EXCEPT !["doActionsAt"] = "ok"]
                        /\ pc' = "done"
                   ELSE UNCHANGED <<step, pc>>
           ELSE /\ unlinks' = [j \in 1..Len(unlinks) |->
                                 IF j = i
                                 THEN [unlinks[j] EXCEPT !.state = "failed"]
                                 ELSE IF unlinks[j].state = "pending"
                                 THEN [unlinks[j] EXCEPT !.state = "skipped"]
                                 ELSE unlinks[j]]
                /\ EmitWarn("ENOENT")
                /\ step' = [step EXCEPT !["doActionsAt"] = "ok"]
                /\ pc' = "done"
    /\ UNCHANGED <<src, error, userRepo, sub, ref, mkdirpState, dirExists,
                   url, statusCode, location, nRequests, nRedirects, archive,
                   manifest, env, tar>>

\* one of the pending unlink calls settles: the file is gone, or there was no
\* such file and .catch emits "warn"; with the last one Promise.all resolves
unlink ==
    /\ pc = "removing files"
    /\ \E i \in 1..Len(unlinks) :
        LET f == <<"file", unlinks[i].path>> IN
        /\ unlinks[i].state = "pending"
        /\ unlinks' = [unlinks EXCEPT
                          ![i].state = IF f \in fs THEN "ok" ELSE "failed"]
        /\ fs' = fs \ {f}
        /\ IF f \in fs THEN UNCHANGED events ELSE EmitWarn("ENOENT")
        /\ IF \A j \in 1..Len(unlinks) :
                 j # i => unlinks[j].state # "pending"
           THEN /\ step' = [step EXCEPT !["doActionsAt"] = "ok"]
                /\ pc' = "done"
           ELSE UNCHANGED <<step, pc>>
    /\ UNCHANGED <<src, error, userRepo, sub, ref, mkdirpState, dirExists,
                   url, statusCode, location, nRequests, nRedirects, archive,
                   manifest, env, tar>>

----------------------------------------------------------------------------
(* Specifications *)

Next ==
    \/ hina
    \/ run
    \/ clone
    \/ mkdirp_done
    \/ mkdirp_fail
    \/ https_get
    \/ https_error
    \/ fetch
    \/ downloadTo_open
    \/ downloadTo_error
    \/ downloadTo_resp_error
    \/ downloadTo_finish
    \/ tar_list_entry
    \/ tar_list_end
    \/ tar_list_error
    \/ extract
    \/ remove
    \/ doActionsAt
    \/ doActionsAt_unlink
    \/ unlink

\* the clone workflow on a few specifiers
Spec == Init /\ [][Next]_vars

\* the same, with every pending callback eventually delivered
LiveSpec == Init /\ [][Next]_vars /\ WF_vars(Next)

\* the constructor on every string of at most MaxLen characters, up to the
\* first request of downloadTo
ParseInit == Start(Strings, {QuietServer}, "fixed", "none")

ParseNext ==
    \/ hina
    \/ run
    \/ clone

ParseSpec == ParseInit /\ [][ParseNext]_vars

\* the refs of at most MaxRefLen characters with slashes and dots
RefStrings == UNION {[1..k -> {"a", "/", "."}] : k \in 1..MaxRefLen}

\* clone of a/a at every such ref, from a host that serves the archive
PathInit ==
    Start({<<"a", "/", "a", "#">> \o r : r \in RefStrings}, {QuietServer},
          "fixed", "some")

PathSpec == PathInit /\ [][Next]_vars

\* specifiers for the whole tree, a sub-directory, a sub-path that is not in
\* the archive
ExtractSpecifiers ==
    {<<"a", "/", "a">>,
     <<"a", "/", "a", "/", "s">>,
     <<"a", "/", "a", "/", "x">>}

\* clone of every archive of at most MaxListing entries
ExtractInit ==
    Start(ExtractSpecifiers, {QuietServer}, "any", "missing")

ExtractSpec == ExtractInit /\ [][Next]_vars

\* clone of a/a with every such degit.json in the tree
ActionsInit ==
    Start({<<"a", "/", "a">>}, {QuietServer}, "fixed", "any")

ActionsSpec == ActionsInit /\ [][Next]_vars

\* clone of a/a has come to doActionsAt: the directory is made, the archive
\* of Listing0 is downloaded, listed to its end, extracted and removed, and
\* the tree brought an array of well-formed remove actions as degit.json
RemovalsInit ==
    /\ server = QuietServer
    /\ archives = "fixed"
    /\ degits = "removes"
    /\ src = <<"a", "/", "a">>
    /\ userRepo = <<"a", "/", "a">>
    /\ sub = <<"/">>
    /\ ref = Undefined
    /\ mkdirpState = "done"
    /\ dirExists = TRUE
    /\ url = ArchiveUrl(userRepo, ref)
    /\ statusCode = 200
    /\ location = Undefined
    /\ nRequests = 1
    /\ nRedirects = 0
    /\ archive = "absent"
    /\ entries = Listing0
    /\ listState = "ended"
    /\ listPos = Len(Listing0)
    /\ wrapper = <<"w">>
    /\ fs = Extracted(wrapper)
    /\ degit \in RemoveManifests
    /\ manifest = degit
    /\ unlinks = <<>>
    /\ events = <<>>
    /\ error = NoError
    /\ step = [n \in Steps |-> IF n = "doActionsAt" THEN "running" ELSE "ok"]
    /\ pc = "acting"

\* doActionsAt from there to its end
RemovalsNext ==
    \/ doActionsAt
    \/ doActionsAt_unlink
    \/ unlink

RemovalsSpec == RemovalsInit /\ [][RemovalsNext]_vars

\* clone of a/a has come to doActionsAt as in RemovalsInit, with a degit.json
\* whose remove action names paths, and with any of OutsideFiles on disk
TraversalInit ==
    /\ server = QuietServer
    /\ archives = "fixed"
    /\ degits = "paths"
    /\ src = <<"a", "/", "a">>
    /\ userRepo = <<"a", "/", "a">>
    /\ sub = <<"/">>
    /\ ref = Undefined
    /\ mkdirpState = "done"
    /\ dirExists = TRUE
    /\ url = ArchiveUrl(userRepo, ref)
    /\ statusCode = 200
    /\ location = Undefined
    /\ nRequests = 1
    /\ nRedirects = 0
    /\ archive = "absent"
    /\ entries = Listing0
    /\ listState = "ended"
    /\ listPos = Len(Listing0)
    /\ wrapper = <<"w">>
    /\ \E others \in SUBSET OutsideFiles : fs = Extracted(wrapper) \cup others
    /\ degit \in PathManifests
    /\ manifest = degit
    /\ unlinks = <<>>
    /\ events = <<>>
    /\ error = NoError
    /\ step = [n \in Steps |-> IF n = "doActionsAt" THEN "running" ELSE "ok"]
    /\ pc = "acting"

TraversalSpec == TraversalInit /\ [][RemovalsNext]_vars

----------------------------------------------------------------------------
(* Helpers of the properties *)

Failed(n) == step[n] \notin {"idle", "running", "ok"}

Settled(n) == step[n] \notin {"idle", "running"}

\* a "warn" event that reports the failure of a step of clone, not that of
\* one file removal inside doActionsAt
StepWarn(e) == e.err # "ENOENT"

\* the "warn" event a step's failure is reported with, if it failed
WarnOf(n) ==
    IF Failed(n) THEN <<[type |-> "warn", err |-> step[n]]>> ELSE <<>>

----------------------------------------------------------------------------
(* Clone workflow properties *)

\* C1: download, extract, archive removal and actions run strictly one after
\* another; a failed download or extract makes clone fail with that error and
\* starts none of the later steps, so after a failed extract the downloaded
\* archive is still in place.
C1_StrictSequence ==
    /\ step["extract"] # "idle" => step["downloadTo"] = "ok"
    /\ step["remove"] # "idle" => step["extract"] = "ok"
    /\ step["doActionsAt"] # "idle" => Settled("remove")
    /\ Cardinality({n \in Steps : step[n] = "running"}) <= 1
    /\ Failed("downloadTo") =>
          /\ pc = "failed"
          /\ error.kind = step["downloadTo"]
          /\ step["extract"] = "idle"
          /\ step["remove"] = "idle"
          /\ step["doActionsAt"] = "idle"
    /\ Failed("extract") =>
          /\ pc = "failed"
          /\ error.kind = step["extract"]
          /\ step["remove"] = "idle"
          /\ step["doActionsAt"] = "idle"
          /\ archive = "complete"

C1_Witness ==
    /\ pc = "failed"
    /\ step["extract"] \in ExtractErrors
    /\ archive = "complete"

\* C2: once the temporary archive file exists, its deletion is attempted on
\* every exit path of clone, and a failed deletion never fails clone.
C2_RemovalOnEveryExit ==
    /\ (pc \in {"done", "failed"} /\ archive # "absent") => Settled("remove")
    /\ Failed("remove") => pc # "failed"

\* C3: when download and extraction succeed, clone succeeds whatever removal
\* and doActionsAt do: each failure is one "warn" event carrying the error,
\* and doActionsAt still runs after a failed removal.
C3_FailuresAreWarnings ==
    /\ step["extract"] = "ok" =>
          pc \in {"removing", "acting", "unlinking", "removing files", "done"}
    /\ step["extract"] = "ok" => error = NoError
    /\ Failed("remove") => step["doActionsAt"] # "idle"
    /\ pc = "done" => Settled("remove") /\ Settled("doActionsAt")
    /\ SelectSeq(events, StepWarn) = WarnOf("remove") \o WarnOf("doActionsAt")

C3_Witness ==
    /\ pc = "done"
    /\ Failed("remove")
    /\ Failed("doActionsAt")
    /\ SelectSeq(events, StepWarn) = events
    /\ Len(events) = 2

\* C4: the download does not start before the destination directory has been
\* created, and a failure to create it makes clone fail.
C4_MkdirpAwaited ==
    /\ step["downloadTo"] # "idle" => mkdirpState = "done"
    /\ mkdirpState = "failed" => pc = "failed"

----------------------------------------------------------------------------
(* fetch properties *)

\* C5: a status in [400,599) fails fetch without a further request; a status
\* in [300,399) without location header fails fetch without a further request;
\* a status in [300,399) with a location header makes fetch request that
\* location; a status in [200,299) returns the response, its body unread.
C5_StatusHandling ==
    [][(pc = "responded" /\ pc' # "responded") =>
        /\ statusCode \in 400..598 =>
              /\ pc' = "failed"
              /\ error'.kind = "status error"
              /\ nRequests' = nRequests
              /\ url' = url
        /\ (statusCode \in 300..398 /\ location = Undefined) =>
              /\ pc' = "failed"
              /\ error'.kind = "No location header"
              /\ nRequests' = nRequests
              /\ url' = url
        /\ (statusCode \in 300..398 /\ location # Undefined) =>
              /\ pc' = "fetching"
              /\ url' = location
              /\ nRequests < MaxRequests => nRequests' = nRequests + 1
        /\ statusCode \in 200..298 =>
              /\ pc' = "piping"
              /\ error' = NoError
              /\ nRequests' = nRequests
              /\ archive' = archive
      ]_vars

C5_Witness ==
    /\ pc = "fetching"
    /\ statusCode \in 300..398
    /\ url = location
    /\ nRequests = 2

\* C6: N chained 3xx responses with a location header followed by a 2xx make
\* fetch issue exactly N+1 requests, each to the location of the previous
\* response, and return the first 2xx response.
C6_RedirectChain ==
    /\ []((pc \in {"fetching", "piping"} /\ nRequests < MaxRequests) =>
             nRequests = nRedirects + 1)
    /\ [](pc = "piping" => statusCode \in 200..299)
    /\ [][(pc = "responded" /\ pc' = "fetching") =>
             (statusCode \in 300..399 /\ url' = location)]_vars
    /\ [](pc = "fetching" => (statusCode = 0 \/ statusCode \in 300..399))

C6_Witness ==
    /\ pc = "piping"
    /\ nRedirects = 2
    /\ nRequests = 3
    /\ statusCode = 200

\* C7: fetch always terminates: a redirect chain longer than the cap, a
\* redirect loop included, ends in a failure instead of requests forever.
C7_FetchTerminates ==
    (pc = "fetching") ~> (pc \notin {"fetching", "responded"})

----------------------------------------------------------------------------
(* Specifier properties *)

\* s read as <user>/<repo>[/<subpath>][#<ref>]: user ends at the first slash,
\* repo at the next slash or hash, subpath at the first hash after it, and ref
\* is everything after that hash
Shape(s) ==
    LET p     == FirstIndex(s, {"/"})
        rest  == SubSeq(s, p + 1, Len(s))
        b     == FirstIndex(rest, {"/", "#"})
        after == SubSeq(rest, b, Len(rest))
        h     == FirstIndex(after, {"#"})
    IN  [user    |-> SubSeq(s, 1, p - 1),
         slash   |-> p <= Len(s),
         repo    |-> SubSeq(rest, 1, b - 1),
         subpath |-> SubSeq(after, 1, h - 1),
         hasRef  |-> h <= Len(after),
         refpart |-> SubSeq(after, h + 1, Len(after))]

HasShape(s) ==
    /\ Shape(s).slash
    /\ Shape(s).user # <<>>
    /\ Shape(s).repo # <<>>
    /\ Shape(s).hasRef => Shape(s).refpart # <<>>

OneLine(t) == \A i \in 1..Len(t) : t[i] \notin LineTerminators

\* the pieces of s between slashes, empty pieces left out
RECURSIVE Segments(_)
Segments(s) ==
    IF s = <<>> THEN <<>>
    ELSE LET q == FirstIndex(s, {"/"})
         IN  (IF q = 1 THEN <<>> ELSE <<SubSeq(s, 1, q - 1)>>)
                \o Segments(SubSeq(s, q + 1, Len(s)))

\* t without its leading hashes: the suffix of t that starts at the first
\* character that is no hash
StrippedOf(t) == SubSeq(t, FirstIndex(t, Alphabet \ {"#"}), Len(t))

\* the constructor ran on src and accepted it
Accepted == pc \notin {"init", "failed"}

\* the constructor ran on src and threw
Rejected == pc = "failed" /\ error.kind = "Could not parse"

\* the parsed fields are those of the shape of src
Corresponds ==
    /\ userRepo = Shape(src).user \o <<"/">> \o Shape(src).repo
    /\ Segments(sub) = Segments(Shape(src).subpath)
    /\ ref = IF Shape(src).hasRef
             THEN StrippedOf(Shape(src).refpart)
             ELSE Undefined

\* nothing was requested and nothing on disk was touched
NoWorkDone ==
    /\ nRequests = 0
    /\ url = Undefined
    /\ mkdirpState = "idle"
    /\ archive = "absent"
    /\ step = [n \in Steps |-> "idle"]

\* C8 as stated: the constructor accepts exactly the strings of the shape
\* <user>/<repo>[/<subpath>][#<ref>], ref being everything after the first
\* hash, and yields the corresponding fields; any other string fails with the
\* parse error carrying the input, before any request or filesystem change.
C8_AcceptsExactlyShape ==
    (pc # "init" /\ error.kind # "Too few arguments") =>
        IF HasShape(src)
        THEN Accepted /\ Corresponds
        ELSE Rejected /\ error.input = src /\ NoWorkDone

\* C8 amended: as C8, the ref being moreover free of line terminators.
C8_AcceptsShapeOneLineRef ==
    (pc # "init" /\ error.kind # "Too few arguments") =>
        IF HasShape(src) /\ OneLine(Shape(src).refpart)
        THEN Accepted /\ Corresponds
        ELSE Rejected /\ error.input = src /\ NoWorkDone

C8_Witness ==
    /\ pc = "constructed"
    /\ Shape(src).subpath # <<>>
    /\ Shape(src).hasRef
    /\ ref # <<>>

\* C9: the parsed subPath begins and ends with "/", has no two consecutive
\* "/", is "/" when the specifier has no sub-path, and is a fixed point of the
\* normalization.
C9_SubPathNormal ==
    Accepted =>
        /\ sub[1] = "/"
        /\ sub[Len(sub)] = "/"
        /\ \A i \in 1..(Len(sub) - 1) : ~(sub[i] = "/" /\ sub[i + 1] = "/")
        /\ Shape(src).subpath = <<>> => sub = <<"/">>
        /\ NormalizeSub(sub) = sub

C9_Witness ==
    /\ pc = "constructed"
    /\ \E i \in 1..(Len(src) - 2) :
        src[i] = "/" /\ src[i + 1] = "/" /\ src[i + 2] = "a"
    /\ Len(sub) > 2

\* the archive URL for a ref-or-HEAD r
UrlFor(r) ==
    <<"https://github.com/">> \o Shape(src).user \o <<"/">> \o Shape(src).repo
        \o <<"/archive/">> \o r \o <<".tar.gz">>

\* C10 as stated: downloadTo requests the archive URL of the ref with its
\* leading hashes stripped when a ref is given, of HEAD when none is given.
C10_ArchiveUrl ==
    (pc = "fetching" /\ nRequests = 1) =>
        url = UrlFor(IF Shape(src).hasRef
                     THEN StrippedOf(Shape(src).refpart)
                     ELSE HEAD)

\* C10 amended: HEAD is also requested when the ref consists of hashes only.
C10_ArchiveUrlHeadForHashes ==
    (pc = "fetching" /\ nRequests = 1) =>
        url = UrlFor(IF Shape(src).hasRef
                          /\ StrippedOf(Shape(src).refpart) # <<>>
                     THEN StrippedOf(Shape(src).refpart)
                     ELSE HEAD)

C10_Witness ==
    /\ pc = "fetching"
    /\ Shape(src).hasRef
    /\ ref = <<>>
    /\ url = UrlFor(HEAD)

----------------------------------------------------------------------------
(* C11 *)

\* C11: whenever the temporary archive file is on disk it lies inside the
\* destination directory, whatever the ref of the specifier is
C11_ArchiveInsideDest ==
    archive # "absent" => (Within(Dest, File) /\ File # Dest)

----------------------------------------------------------------------------
(* C12 *)

\* the positions of the top-level directory entries among the first n entries
WrapperPositions(n) == {i \in 1..n : IsWrapperEntry(entries[i])}

\* the first of them is at position i
FirstWrapperAt(i) ==
    /\ i \in WrapperPositions(Len(entries))
    /\ \A j \in WrapperPositions(Len(entries)) : i <= j

\* C12: the wrapper is the name of the first top-level directory entry in
\* listing order and, once found, is never changed by a later entry; the end
\* of the listing fails extract with the no-wrapper error only when no wrapper
\* was found, and then nothing is extracted; a listing that ends without a
\* top-level directory entry has failed extract with that error
C12_FirstWrapper ==
    /\ [](wrapper # Undefined =>
            \E i \in 1..listPos :
                FirstWrapperAt(i) /\ wrapper = WrapperOf(entries[i]))
    /\ [][wrapper # Undefined => wrapper' = wrapper]_vars
    /\ [][(wrapper # Undefined /\ ~Failed("extract")) =>
            step'["extract"] # "No wrapper matches"]_vars
    /\ [](step["extract"] = "No wrapper matches" =>
            /\ wrapper = Undefined
            /\ WrapperPositions(Len(entries)) = {}
            /\ listState = "ended"
            /\ fs = {}
            /\ pc = "failed")
    /\ []((listState = "ended" /\ WrapperPositions(Len(entries)) = {}) =>
            (step["extract"] = "No wrapper matches" /\ fs = {}))

\* the listing w/, v/, ... was read to its end with the wrapper w, and the
\* tree was extracted
C12_Witness ==
    /\ listState = "ended"
    /\ WrapperPositions(Len(entries)) = {1, 2}
    /\ entries[2] = <<"v", "/">>
    /\ wrapper = <<"w">>
    /\ step["extract"] = "ok"

----------------------------------------------------------------------------
(* C13 *)

\* the path components of the path p: what stands between its slashes
Components(p) == SelectSeq(SplitSlash(p), LAMBDA x : x # <<>>)

\* the entry p is located under the directory <wrapper><subPath>
Under(p) ==
    /\ Len(p) > Len(wrapper \o sub)
    /\ SubSeq(p, 1, Len(wrapper \o sub)) = wrapper \o sub

\* the path of such an entry relative to <wrapper><subPath>, at the destination
Relocated(p) ==
    Dest \o Components(SubSeq(p, Len(wrapper \o sub) + 1, Len(p)))

\* the directories and files of the archive under <wrapper><subPath>, each at
\* its relative path directly under the destination
Subtree ==
    {<<IF entries[i][Len(entries[i])] = "/" THEN "dir" ELSE "file",
       Relocated(entries[i])>> : i \in {j \in 1..Len(entries) : Under(entries[j])}}

\* C13: after extract has succeeded the destination holds exactly the archive
\* entries under <wrapper><subPath>, each at its path relative to that
\* directory, the strip count is the number of path components of
\* <wrapper><subPath>, and before that nothing is written
C13_ExtractsSubtree ==
    /\ step["extract"] = "ok" =>
        /\ fs = Subtree
        /\ Strip(wrapper) = Len(Components(wrapper \o sub))
    /\ step["extract"] # "ok" => fs = {}

\* the spec's example: w/a and w/s/b with sub-path /s/ yields out/b only
C13_Witness ==
    /\ step["extract"] = "ok"
    /\ sub = <<"/", "s", "/">>
    /\ \E i \in 1..Len(entries) : entries[i] = <<"w", "/", "a">>
    /\ fs = {<<"file", Dest \o <<<<"b">>>>>>}

----------------------------------------------------------------------------
(* C14 *)

\* a "warn" event of a failed file removal
FileWarn(e) == e.err = "ENOENT"

\* C14: doActionsAt never fails, and the only "warn" events of a clone besides
\* that of a failed removal of the archive come from failed file removals; in
\* particular a degit.json that is no valid JSON ends as no manifest does
C14_ManifestErrorsSwallowed ==
    /\ ~Failed("doActionsAt")
    /\ SelectSeq(events, StepWarn) = WarnOf("remove")

----------------------------------------------------------------------------
(* C15 *)

\* a file removal of an action has been started
RemovalStarted == unlinks # <<>>

\* C15: a file removal of an action is started only when degit.json is
\* deleted already; from then on it stays deleted, whatever the removals do;
\* and a doActionsAt that handled an array and ended well leaves no manifest
\* for a second one to find
C15_ManifestConsumedFirst ==
    /\ [](RemovalStarted => manifest = NoManifest)
    /\ [][(~RemovalStarted /\ RemovalStarted') => manifest' = NoManifest]_vars
    /\ [][(pc \in {"removing files", "done"} /\ manifest = NoManifest) =>
            manifest' = NoManifest]_vars
    /\ []((pc = "done" /\ degit.kind = "array" /\ step["doActionsAt"] = "ok")
            => manifest = NoManifest)

\* the manifest is gone and a removal of its remove action has failed
C15_Witness ==
    /\ pc = "done"
    /\ degit.kind = "array"
    /\ manifest = NoManifest
    /\ \E i \in 1..Len(unlinks) : unlinks[i].state = "failed"
    /\ \E i \in 1..Len(unlinks) : unlinks[i].state = "ok"

----------------------------------------------------------------------------
(* C16 *)

\* a well-formed remove action: action "remove" with an array of strings
WellFormedRemove(item) ==
    /\ item.type = "object"
    /\ item.action = "remove"
    /\ item.isArray
    /\ \A k \in 1..Len(item.files) : item.files[k] # NonString

\* the files of the well-formed remove actions of degit.json, at the
\* destination
ExpectedRemovals ==
    UNION {{Append(Dest, degit.items[i].files[k]) :
                k \in 1..Len(degit.items[i].files)} :
           i \in {j \in 1..Len(degit.items) : WellFormedRemove(degit.items[j])}}

\* the files a removal was started for
Attempted == {unlinks[i].path : i \in 1..Len(unlinks)}

\* the removals are started, or are through with doActionsAt ended well
RemovalsRun ==
    /\ degit.kind = "array"
    /\ \/ pc = "removing files"
       \/ pc = "done" /\ step["doActionsAt"] = "ok"

\* C16: the removals doActionsAt starts are those of the files of the
\* well-formed remove actions, all of them and no others, whatever other
\* entries the array holds; nothing but these files leaves the destination,
\* every "warn" event is that of one failed removal among them, and no entry
\* makes clone or doActionsAt fail
C16_ExactlyWellFormedRemoves ==
    /\ [](RemovalsRun => Attempted = ExpectedRemovals)
    /\ [](degit.kind = "array" => Attempted \subseteq ExpectedRemovals)
    /\ [][(step["extract"] = "ok" /\ fs' # fs) =>
            \E p \in Attempted : fs' = fs \ {<<"file", p>>}]_vars
    /\ [](Len(SelectSeq(events, FileWarn)) =
            Cardinality({i \in 1..Len(unlinks) : unlinks[i].state = "failed"}))
    /\ []((degit.kind = "array" /\ Failed("doActionsAt")) =>
            step["doActionsAt"] = "unlink failed")
    /\ [](step["doActionsAt"] # "idle" => pc # "failed")

\* an entry with an unknown action stands before a well-formed remove action
\* whose file is removed without any warning
C16_Witness ==
    /\ pc = "done"
    /\ degit.kind = "array"
    /\ Len(degit.items) = 2
    /\ degit.items[1].action = "unknown"
    /\ WellFormedRemove(degit.items[2])
    /\ <<"file", Append(Dest, <<"a">>)>> \in Extracted(wrapper) \ fs
    /\ events = <<>>

----------------------------------------------------------------------------
(* C17 *)

\* how many files the well-formed remove actions of the array list
RECURSIVE ListedFiles(_)
ListedFiles(items) ==
    IF items = <<>> THEN 0
    ELSE (IF WellFormedRemove(Head(items)) THEN Len(Head(items).files) ELSE 0)
            + ListedFiles(Tail(items))

\* a removal has just failed
RemovalFails(i) ==
    /\ i \in 1..Len(unlinks)
    /\ unlinks[i].state = "pending"
    /\ unlinks'[i].state = "failed"

\* C17: one removal is started for every file a validated remove action lists,
\* at its path below the destination; a removal that fails appends exactly one
\* "warn" event, leaves the other removals as they are and does not fail
\* doActionsAt; in the end every removal has settled and no listed file is
\* left
C17_EveryFileAttempted ==
    /\ [](RemovalsRun =>
            /\ Len(unlinks) = ListedFiles(degit.items)
            /\ \A i \in 1..Len(unlinks) : Within(Dest, unlinks[i].path))
    /\ [][\A i \in 1..Len(unlinks) : RemovalFails(i) =>
            /\ Len(events') = Len(events) + 1
            /\ events'[Len(events')].type = "warn"
            /\ \A j \in 1..Len(unlinks) : j # i => unlinks'[j] = unlinks[j]
            /\ step'["doActionsAt"] \in {"running", "ok"}]_vars
    /\ [][pc = "removing files" =>
            step'["doActionsAt"] \in {"running", "ok"}]_vars
    /\ []((pc = "done" /\ RemovalsRun) =>
            \A i \in 1..Len(unlinks) :
                /\ unlinks[i].state \in {"ok", "failed"}
                /\ <<"file", unlinks[i].path>> \notin fs)

\* the missing file x is listed before the file a: its removal failed with one
\* warning, a is removed all the same, doActionsAt ended well
C17_Witness ==
    /\ pc = "done"
    /\ step["doActionsAt"] = "ok"
    /\ Len(unlinks) = 2
    /\ unlinks[1] = [path |-> Append(Dest, <<"x">>), state |-> "failed"]
    /\ unlinks[2] = [path |-> Append(Dest, <<"a">>), state |-> "ok"]
    /\ Len(SelectSeq(events, FileWarn)) = 1
    /\ <<"file", Append(Dest, <<"a">>)>> \notin fs

----------------------------------------------------------------------------
(* C18 *)

\* degit.json is absent, unreadable or holds JSON that is no array
NothingToDo(m) == m.kind \in {"absent", "unreadable", "nonarray"}

\* C18: with degit.json absent, unreadable or no array, doActionsAt returns
\* well in one step that emits nothing and changes neither the files of the
\* destination nor the manifest, and no removal is ever started
C18_SilentNoOp ==
    /\ [][(pc = "acting" /\ NothingToDo(manifest) /\ pc' # pc) =>
            /\ pc' = "done"
            /\ step'["doActionsAt"] = "ok"
            /\ events' = events
            /\ fs' = fs
            /\ manifest' = manifest
            /\ unlinks' = <<>>]_vars
    /\ []((NothingToDo(degit) /\ step["doActionsAt"] \notin {"idle", "running"})
            =>  /\ step["doActionsAt"] = "ok"
                /\ manifest = degit
                /\ fs = Extracted(wrapper)
                /\ unlinks = <<>>
                /\ SelectSeq(events, StepWarn) = WarnOf("remove"))

\* doActionsAt has returned on a degit.json that holds no array: the file and
\* the extracted tree are as they were
C18_Witness ==
    /\ pc = "done"
    /\ step["doActionsAt"] = "ok"
    /\ degit.kind = "nonarray"
    /\ manifest = degit
    /\ fs = Extracted(wrapper)
    /\ fs # {}
    /\ events = <<>>

----------------------------------------------------------------------------
(* C19 *)

\* C19: downloadTo resolves only once the write stream has finished, and once
\* the response is piped to the file it always settles in the end, whatever
\* fails while streaming
C19_DownloadSettles ==
    /\ [][(step["downloadTo"] = "running" /\ step'["downloadTo"] = "ok") =>
            (archive = "partial" /\ archive' = "complete")]_vars
    /\ (pc = "piping") ~> Settled("downloadTo")

----------------------------------------------------------------------------
(* C20 *)

\* the paths of the started removals, in manifest order
RemovalPaths == [i \in 1..Len(unlinks) |-> unlinks[i].path]

\* the files left when the removals of paths run one after the other on files
RECURSIVE SeqFiles(_, _)
SeqFiles(paths, files) ==
    IF paths = <<>> THEN files
    ELSE SeqFiles(Tail(paths), files \ {<<"file", Head(paths)>>})

\* the number of removals that fail in such a run
RECURSIVE SeqWarns(_, _)
SeqWarns(paths, files) ==
    IF paths = <<>> THEN 0
    ELSE (IF <<"file", Head(paths)>> \in files THEN 0 ELSE 1)
            + SeqWarns(Tail(paths), files \ {<<"file", Head(paths)>>})

\* C20: in whatever order the started removals settle, doActionsAt ends well
\* with the files and the number of "warn" events that removing the files one
\* after the other in manifest order gives
C20_OrderIndependent ==
    (pc = "done" /\ RemovalStarted) =>
        /\ step["doActionsAt"] = "ok"
        /\ fs = SeqFiles(RemovalPaths, Extracted(wrapper))
        /\ Len(SelectSeq(events, FileWarn)) =
              SeqWarns(RemovalPaths, Extracted(wrapper))

\* the file a is listed twice and the second removal settled first: it
\* removed the file and the first one failed
C20_Witness ==
    /\ pc = "done"
    /\ Len(unlinks) = 2
    /\ unlinks[1] = [path |-> Append(Dest, <<"a">>), state |-> "failed"]
    /\ unlinks[2] = [path |-> Append(Dest, <<"a">>), state |-> "ok"]
    /\ Len(SelectSeq(events, FileWarn)) = 1

----------------------------------------------------------------------------
(* C21 *)

\* C21: every file a removal of a remove action has deleted lies inside the
\* destination directory, whatever paths the files array names
C21_RemovalsInsideDest ==
    \A i \in 1..Len(unlinks) :
        unlinks[i].state = "ok" =>
            (Within(Dest, unlinks[i].path) /\ unlinks[i].path # Dest)

====
